---- MODULE Spec2Model ----
(***************************************************************************)
(* ScatterConnection (ding/torch_utils/network/scatter_connection.py).     *)
(*                                                                         *)
(* Tensors are functions over 0-based index ranges, nested one level per   *)
(* dimension, so the index arithmetic reads as in the source.  Feature     *)
(* values are float32 numbers with integer values; the accumulator is a    *)
(* float32 tensor (torch.zeros default dtype), so an addition rounds to    *)
(* the 24-bit significand.  An index outside the destination raises.  On a *)
(* CPU tensor (Spec, ThreadSpec) the scatter kernels visit the positions   *)
(* along the scatter dimension in increasing order; on a CUDA tensor       *)
(* (DeviceSpec) torch leaves the order of the writes to one address open.  *)
(***************************************************************************)
EXTENDS Integers, Sequences, FiniteSets, TLC

\* ------------------------------------------------------------------ bounds
MaxEnt == 3         \* largest B*M of the calls with in-grid coordinates
MaxCells == 4       \* largest H*W of the grids of those calls
MaxSideWide == 3    \* largest H, W of the grids used with out-of-grid coordinates
MaxN == 2           \* largest feature dimension N
MaxShape == 3       \* largest B, M of the calls with disagreeing shapes

\* ------------------------------------------------------------ tensor helpers
Range(n) == 0 .. (n - 1)

Size(t) == Cardinality(DOMAIN t)

Abs(v) == IF v < 0 THEN -v ELSE v

Max2(a, b) == IF a < b THEN b ELSE a

\* A call either returns a tensor or raises.
Ok(v) == [status |-> "ok", value |-> v]
Raised == [status |-> "error", value |-> [i \in {} |-> 0]]
NotCalled == [status |-> "none", value |-> [i \in {} |-> 0]]

\* ------------------------------------------------------------ float32 values
Significand == 2 ^ 24   \* integers up to here are exact in float32

RECURSIVE Ulp(_, _)
\* spacing of float32 numbers around magnitude a (u a power of two)
Ulp(a, u) == IF a < Significand * u THEN u ELSE Ulp(a, 2 * u)

\* round-to-nearest, ties-to-even, of an integer into float32
RoundF32(v) ==
    LET a == Abs(v)
        u == Ulp(a, 1)
        q == a \div u
        r == a % u
        m == IF 2 * r < u THEN q
             ELSE IF 2 * r > u THEN q + 1
             ELSE IF q % 2 = 0 THEN q ELSE q + 1
    IN  IF v < 0 THEN -(m * u) ELSE m * u

\* faulty variant: the add branch overwrites like scatter_
FAddOverwrites(a, b) == RoundF32(b)

\* float32 addition, as scatter_add_ performs it on the accumulator
FAdd(a, b) == RoundF32(a + b)

\* ------------------------------------------------------- torch scatter kernels
Cols(t) == IF Size(t) = 0 THEN 0 ELSE Size(t[0])

Zeros1(n) == [i \in Range(n) |-> 0]

\* a scatter that raised, with the destination as the kernel left it: the
\* index is checked as the kernel reaches each position, so the writes made
\* before the offending position stay in the destination
Failed(self) == [status |-> "error", value |-> self]

\* the first of a non-empty set of positions
First(S) == CHOOSE n \in S : \A m \in S : n <= m

RECURSIVE ScatterRow(_, _, _, _, _)
\* One pass along the scatter dimension from position k on: self[index[k]] is
\* written (reduce = "none") or added to (reduce = "add") with src[k].  An index
\* outside self raises and ends the pass.
ScatterRow(self, index, src, reduce, k) ==
    IF k = Size(index) THEN Ok(self)
    ELSE IF index[k] \notin DOMAIN self THEN Failed(self)
    ELSE ScatterRow([self EXCEPT ![index[k]] =
                        IF reduce = "add" THEN FAdd(@, src[k]) ELSE src[k]],
                    index, src, reduce, k + 1)

\* Tensor.scatter_ / scatter_add_ on 2-D tensors along the last dimension:
\* index.size(d) <= self.size(d) for d # dim and index.size(d) <= src.size(d)
\* for every d, else it raises before any write; rows outside index keep their
\* values.  Rows are written one after the other, and the first row with an
\* index outside self ends the call.
Scatter2D(self, index, src, reduce) ==
    IF \/ Size(index) > Size(self)
       \/ Size(index) > Size(src)
       \/ Cols(index) > Cols(src)
    THEN Failed(self)
    ELSE LET rows == [n \in DOMAIN index |->
                          ScatterRow(self[n], index[n], src[n], reduce, 0)]
             bad == {n \in DOMAIN rows : rows[n].status = "error"}
         IN  IF bad = {}
             THEN Ok([n \in DOMAIN self |->
                          IF n \in DOMAIN rows THEN rows[n].value ELSE self[n]])
             ELSE Failed([n \in DOMAIN self |->
                              IF n \in DOMAIN rows /\ n <= First(bad)
                              THEN rows[n].value ELSE self[n]])

\* the same on 3-D tensors along the last dimension
Scatter3D(self, index, src, reduce) ==
    IF \/ Size(index) > Size(self)
       \/ Size(index) > Size(src)
    THEN Failed(self)
    ELSE LET mats == [b \in DOMAIN index |->
                          Scatter2D(self[b], index[b], src[b], reduce)]
             bad == {b \in DOMAIN mats : mats[b].status = "error"}
         IN  IF bad = {}
             THEN Ok([b \in DOMAIN self |->
                          IF b \in DOMAIN mats THEN mats[b].value ELSE self[b]])
             ELSE Failed([b \in DOMAIN self |->
                              IF b \in DOMAIN mats /\ b <= First(bad)
                              THEN mats[b].value ELSE self[b]])

\* ------------------------------------------------- ScatterConnection.forward
\* location.view(-1, 2): the (LB, LM, 2) tensor as a list of LB*LM pairs
ViewPairs(location) ==
    LET LM == Cols(location)
    IN  [k \in Range(Size(location) * LM) |-> location[k \div LM][k % LM]]

\* faulty variant: no per-batch-element offset
BiasNoOffset(B, M, H, W) == [k \in Range(B * M) |-> 0]

\* torch.arange(B).mul_(H * W).unsqueeze(1).repeat(1, M).view(-1)
Bias(B, M, H, W) == [k \in Range(B * M) |-> (k \div M) * (H * W)]

\* faulty variant: the two coordinates taken in the other order
LinearIndexSwapped(index, W) == [k \in DOMAIN index |-> index[k][2] * W + index[k][1]]

\* index[:, 0] * W + index[:, 1]
LinearIndex(index, W) == [k \in DOMAIN index |-> index[k][1] * W + index[k][2]]

\* index += bias: in place, so bias must broadcast to the shape of index
AddBias(index, bias) ==
    IF Size(bias) = Size(index)
    THEN Ok([k \in DOMAIN index |-> index[k] + bias[k]])
    ELSE IF Size(bias) = 1
    THEN Ok([k \in DOMAIN index |-> index[k] + bias[0]])
    ELSE Raised

\* index.repeat(N, 1)
RepeatRows(index, N) == [n \in Range(N) |-> index]

\* x.view(-1, N).permute(1, 0)
ViewPermute(x, N) ==
    LET M == Cols(x)
    IN  [n \in Range(N) |-> [k \in Range(Size(x) * M) |-> x[k \div M][k % M][n]]]

\* torch.zeros(N, B * H * W)
Zeros2(rows, cols) == [n \in Range(rows) |-> Zeros1(cols)]

\* output.reshape(N, B, H, W).permute(1, 0, 2, 3).contiguous()
ReshapePermute(output, N, B, H, W) ==
    [b \in Range(B) |-> [n \in Range(N) |-> [r \in Range(H) |-> [c \in Range(W) |->
        output[n][b * (H * W) + r * W + c]]]]]

forward(st, x, spatial_size, location) ==
    LET B == Size(x)
        M == Cols(x)
        N == Size(x[0][0])
        H == spatial_size[1]
        W == spatial_size[2]
        index0 == ViewPairs(location)
        bias == Bias(B, M, H, W)
        index1 == AddBias(LinearIndex(index0, W), bias)
    IN  IF index1.status = "error" THEN Raised
        ELSE LET index == RepeatRows(index1.value, N)
                 xv == ViewPermute(x, N)
                 output == Zeros2(N, B * H * W)
                 written == IF st = "cover" THEN Scatter2D(output, index, xv, "none")
                            ELSE Scatter2D(output, index, xv, "add")
             IN  IF written.status = "error" THEN Raised
                 ELSE Ok(ReshapePermute(written.value, N, B, H, W))

\* ---------------------------------------------- ScatterConnection.xy_forward
\* x.permute(0, 2, 1)
Permute021(x) ==
    [b \in DOMAIN x |-> [n \in DOMAIN x[0][0] |-> [m \in DOMAIN x[b] |-> x[b][m][n]]]]

\* faulty variant: coord_y taken as the row
XYIndicesSwapped(coord_x, coord_y, W) ==
    [b \in DOMAIN coord_x |-> [m \in DOMAIN coord_x[b] |->
        coord_y[b][m] * W + coord_x[b][m]]]

\* (coord_x * W + coord_y).long()
XYIndices(coord_x, coord_y, W) ==
    [b \in DOMAIN coord_x |-> [m \in DOMAIN coord_x[b] |->
        coord_x[b][m] * W + coord_y[b][m]]]

\* indices.unsqueeze(dim=1).repeat(1, EmbeddingSize, 1)
UnsqueezeRepeat(indices, EmbeddingSize) ==
    [b \in DOMAIN indices |-> [n \in Range(EmbeddingSize) |-> indices[b]]]

\* torch.zeros(size=(BatchSize, EmbeddingSize, H, W)).view(BatchSize, EmbeddingSize, H * W)
Zeros3(BatchSize, EmbeddingSize, cells) ==
    [b \in Range(BatchSize) |-> Zeros2(EmbeddingSize, cells)]

\* output.view(BatchSize, EmbeddingSize, H, W)
ViewGrid(output, H, W) ==
    [b \in DOMAIN output |-> [n \in DOMAIN output[b] |->
        [r \in Range(H) |-> [c \in Range(W) |-> output[b][n][r * W + c]]]]]

xy_forward(st, x, spatial_size, coord_x, coord_y) ==
    LET BatchSize == Size(x)
        EmbeddingSize == Size(x[0][0])
        xp == Permute021(x)
        H == spatial_size[1]
        W == spatial_size[2]
        indices == UnsqueezeRepeat(XYIndices(coord_x, coord_y, W), EmbeddingSize)
        output == Zeros3(BatchSize, EmbeddingSize, H * W)
        written == IF st = "cover" THEN Scatter3D(output, indices, xp, "none")
                   ELSE Scatter3D(output, indices, xp, "add")
    IN  IF written.status = "error" THEN Raised
        ELSE Ok(ViewGrid(written.value, H, W))

\* -------------------------------------------------------------------- state
VARIABLES
    scatter_type,   \* self.scatter_type, fixed by __init__
    x,              \* features (B, M, N) of the pending call
    spatial_size,   \* <<H, W>>
    location,       \* coordinates (LB, LM, 2); xy_forward gets its two columns
    ret_forward,    \* what forward(x, spatial_size, location) returned
    ret_xy,         \* what xy_forward(x, spatial_size, location[..., 0], location[..., 1]) returned
    init_type,      \* the scatter_type argument __init__ was given
    call_args,      \* two calls in flight: the arguments each was called with
    heap,           \* two calls in flight: the tensor storages, by owner and name
    frame,          \* two calls in flight: position and outcome of each call
    device,         \* x.device: "cpu" or "cuda"
    ret_repeat      \* what a second forward call with the same arguments returned

callVars == <<x, spatial_size, location, ret_forward, ret_xy>>

threadVars == <<call_args, heap, frame>>

deviceVars == <<device, ret_repeat>>

vars == <<scatter_type, init_type, callVars, threadVars, deviceVars>>

\* value of the variables a specification does not use
Unused == <<>>

\* location[..., i]
Select(loc, i) == [b \in DOMAIN loc |-> [m \in DOMAIN loc[b] |-> loc[b][m][i]]]

\* ------------------------------------------------------------------- inputs
Shapes(maxEnt) == {s \in (1 .. maxEnt) \X (1 .. maxEnt) : s[1] * s[2] <= maxEnt}

Grids(maxCells) == {g \in (1 .. maxCells) \X (1 .. maxCells) : g[1] * g[2] <= maxCells}

GridsWide ==
    {g \in (2 .. MaxSideWide) \X (2 .. MaxSideWide) : g[1] * g[2] <= 2 * MaxSideWide}

\* every entity and channel tagged with its own value
TagFeatures(B, M, N) ==
    [b \in Range(B) |-> [m \in Range(M) |-> [n \in Range(N) |->
        10 * (b * M + m + 1) + n + 1]]]

\* large values whose float32 sums depend on the order of the additions
CancelFeatures(B, M, N) ==
    [b \in Range(B) |-> [m \in Range(M) |-> [n \in Range(N) |->
        LET i == (m + n) % 3
        IN  IF i = 0 THEN Significand ELSE IF i = 1 THEN 1 ELSE -Significand]]]

FeatureSet(B, M, N) ==
    {TagFeatures(B, M, N)} \cup (IF B = 1 /\ N = 1 THEN {CancelFeatures(B, M, N)} ELSE {})

\* the feature dimensions of the calls
Channels == {1, MaxN}

InGridPairs(H, W) == Range(H) \X Range(W)

\* pairs around the grid: one step outside on every side, and first components
\* up to W - 1
WidePairs(H, W) == (-1 .. Max2(H, W - 1)) \X (-1 .. W)

Locations(LB, LM, pairs) == [Range(LB) -> [Range(LM) -> pairs]]

\* in-grid coordinates following the entity position
PatternLocation(LB, LM, H, W) ==
    [b \in Range(LB) |-> [m \in Range(LM) |-> <<(b + m) % H, m % W>>]]

\* calls whose coordinates all lie in the grid
InitInGrid ==
    \E s \in Shapes(MaxEnt) \cup {<<2, 2>>}, g \in Grids(MaxCells), N \in Channels :
        /\ x \in FeatureSet(s[1], s[2], N)
        /\ spatial_size = g
        /\ location \in Locations(s[1], s[2], InGridPairs(g[1], g[2]))

\* calls of one or two entities whose coordinates may lie outside the grid
InitWide ==
    \E s \in {<<1, 1>>, <<1, 2>>, <<2, 1>>}, g \in GridsWide :
        /\ x = TagFeatures(s[1], s[2], MaxN)
        /\ spatial_size = g
        /\ location \in Locations(s[1], s[2], WidePairs(g[1], g[2]))

\* calls whose coordinate shape disagrees with the feature shape
InitMismatch ==
    \E s \in (1 .. MaxShape) \X (1 .. MaxShape), l \in (1 .. MaxShape) \X (1 .. MaxShape),
       N \in Channels :
        /\ s # l
        /\ x = TagFeatures(s[1], s[2], N)
        /\ spatial_size = <<2, 2>>
        /\ location = PatternLocation(l[1], l[2], 2, 2)

\* the one-entity scenario on a 4 x 4 grid with feature vector [1, 2]
InitExample ==
    /\ x = [b \in Range(1) |-> [m \in Range(1) |-> [n \in Range(2) |-> n + 1]]]
    /\ spatial_size = <<4, 4>>
    /\ location \in Locations(1, 1, InGridPairs(4, 4))

\* ScatterConnection.__init__ followed by the choice of one call's arguments
Init ==
    /\ init_type \in {"cover", "add"}
    /\ scatter_type = init_type
    /\ InitInGrid \/ InitWide \/ InitMismatch \/ InitExample
    /\ ret_forward = NotCalled
    /\ ret_xy = NotCalled
    /\ call_args = Unused /\ heap = Unused /\ frame = Unused
    /\ device = "cpu" /\ ret_repeat = NotCalled

\* ------------------------------------------------------------------ actions
Forward ==
    /\ ret_forward.status = "none"
    /\ ret_forward' = forward(scatter_type, x, spatial_size, location)
    /\ UNCHANGED <<scatter_type, init_type, x, spatial_size, location, ret_xy, threadVars, deviceVars>>

XYForward ==
    /\ ret_xy.status = "none"
    /\ ret_xy' = xy_forward(scatter_type, x, spatial_size,
                            Select(location, 1), Select(location, 2))
    /\ UNCHANGED <<scatter_type, init_type, x, spatial_size, location, ret_forward, threadVars, deviceVars>>

Next == Forward \/ XYForward

Spec == Init /\ [][Next]_vars

\* ------------------------------------------- two calls in flight on one engine
\* Each statement group of forward / xy_forward is one step of the calling
\* thread; tensors live in heap, and a call touches the storages of its two
\* arguments and those its own statements create.
Calls == {1, 2}

\* faulty variant: the tensors a call creates kept in one place for all calls
SharedStorage(c, name) == <<1, name>>

\* the storage of the tensor a statement of call c creates and binds to name
\* (torch.zeros, an arithmetic result, repeat): a new one for every call
NewStorage(c, name) == <<c, name>>

\* the storage of argument name of call c
ArgStorage(c, name) == <<c, "arg_" \o name>>

Storages ==
    {NewStorage(c, name) : c \in Calls, name \in {"index", "bias", "output", "ret"}}
        \cup {ArgStorage(c, name) : c \in Calls, name \in {"x", "location"}}

ThreadPairs == {<<0, 0>>, <<1, 1>>, <<2, 2>>}

ThreadArgs ==
    {[entry |-> e, x |-> TagFeatures(s[1], s[2], MaxN), spatial_size |-> <<2, 2>>,
      location |-> l] :
        e \in {"forward", "xy_forward"},
        s \in {<<1, 2>>, <<2, 1>>},
        l \in UNION {Locations(t[1], t[2], ThreadPairs) : t \in {<<1, 2>>, <<2, 1>>}}}

ThreadInit ==
    /\ init_type \in {"cover", "add"}
    /\ scatter_type = init_type
    /\ call_args \in [Calls -> ThreadArgs]
    /\ \A c \in Calls :
          /\ Size(call_args[c].location) = Size(call_args[c].x)
          /\ Cols(call_args[c].location) = Cols(call_args[c].x)
    /\ heap = [s \in Storages |->
                  IF \E c \in Calls : s = ArgStorage(c, "x")
                  THEN call_args[CHOOSE c \in Calls : s = ArgStorage(c, "x")].x
                  ELSE IF \E c \in Calls : s = ArgStorage(c, "location")
                  THEN call_args[CHOOSE c \in Calls : s = ArgStorage(c, "location")].location
                  ELSE Unused]
    /\ frame = [c \in Calls |-> [pc |-> "start", status |-> "none"]]
    /\ x = Unused /\ spatial_size = Unused /\ location = Unused
    /\ ret_forward = Unused /\ ret_xy = Unused
    /\ device = "cpu" /\ ret_repeat = Unused

\* what the local names of call c refer to
ArgX(c) == heap[ArgStorage(c, "x")]
ArgLocation(c) == heap[ArgStorage(c, "location")]
LocalH(c) == call_args[c].spatial_size[1]
LocalW(c) == call_args[c].spatial_size[2]

Goto(c, pc) == frame' = [frame EXCEPT ![c].pc = pc]

Raise(c) == frame' = [frame EXCEPT ![c] = [pc |-> "done", status |-> "error"]]

Return(c) == frame' = [frame EXCEPT ![c] = [pc |-> "done", status |-> "ok"]]

ThreadUnchanged == UNCHANGED <<scatter_type, init_type, callVars, call_args, deviceVars>>

\* forward, lines 77-82: shapes, index = location.view(-1, 2), bias, linear index
FIndex(c) ==
    /\ call_args[c].entry = "forward" /\ frame[c].pc = "start"
    /\ heap' = [heap EXCEPT
                  ![NewStorage(c, "bias")] =
                      Bias(Size(ArgX(c)), Cols(ArgX(c)), LocalH(c), LocalW(c)),
                  ![NewStorage(c, "index")] =
                      LinearIndex(ViewPairs(ArgLocation(c)), LocalW(c))]
    /\ Goto(c, "index")
    /\ ThreadUnchanged

\* forward, line 83: index += bias
FAddBias(c) ==
    /\ call_args[c].entry = "forward" /\ frame[c].pc = "index"
    /\ LET r == AddBias(heap[NewStorage(c, "index")], heap[NewStorage(c, "bias")])
       IN  IF r.status = "error"
           THEN Raise(c) /\ UNCHANGED heap
           ELSE /\ heap' = [heap EXCEPT ![NewStorage(c, "index")] = r.value]
                /\ Goto(c, "biased")
    /\ ThreadUnchanged

\* forward, lines 84-86: index.repeat, the view of x, output = torch.zeros
FAlloc(c) ==
    /\ call_args[c].entry = "forward" /\ frame[c].pc = "biased"
    /\ LET N == Size(ArgX(c)[0][0])
       IN  heap' = [heap EXCEPT
                      ![NewStorage(c, "index")] = RepeatRows(@, N),
                      ![NewStorage(c, "output")] =
                          Zeros2(N, Size(ArgX(c)) * LocalH(c) * LocalW(c))]
    /\ Goto(c, "alloc")
    /\ ThreadUnchanged

\* forward, lines 87-90: the scatter into output
FScatter(c) ==
    /\ call_args[c].entry = "forward" /\ frame[c].pc = "alloc"
    /\ LET xv == ViewPermute(ArgX(c), Size(ArgX(c)[0][0]))
           r == IF scatter_type = "cover"
                THEN Scatter2D(heap[NewStorage(c, "output")],
                               heap[NewStorage(c, "index")], xv, "none")
                ELSE Scatter2D(heap[NewStorage(c, "output")],
                               heap[NewStorage(c, "index")], xv, "add")
       IN  /\ heap' = [heap EXCEPT ![NewStorage(c, "output")] = r.value]
           /\ IF r.status = "error" THEN Raise(c) ELSE Goto(c, "scattered")
    /\ ThreadUnchanged

\* forward, lines 91-93: reshape, permute, contiguous, return
FReturn(c) ==
    /\ call_args[c].entry = "forward" /\ frame[c].pc = "scattered"
    /\ heap' = [heap EXCEPT ![NewStorage(c, "ret")] =
                  ReshapePermute(heap[NewStorage(c, "output")], Size(ArgX(c)[0][0]),
                                 Size(ArgX(c)), LocalH(c), LocalW(c))]
    /\ Return(c)
    /\ ThreadUnchanged

\* xy_forward, lines 129-134: shapes, the view of x, indices
XIndices(c) ==
    /\ call_args[c].entry = "xy_forward" /\ frame[c].pc = "start"
    /\ heap' = [heap EXCEPT ![NewStorage(c, "index")] =
                  UnsqueezeRepeat(XYIndices(Select(ArgLocation(c), 1),
                                            Select(ArgLocation(c), 2), LocalW(c)),
                                  Size(ArgX(c)[0][0]))]
    /\ Goto(c, "index")
    /\ ThreadUnchanged

\* xy_forward, line 135: output = torch.zeros(...).view(...)
XAlloc(c) ==
    /\ call_args[c].entry = "xy_forward" /\ frame[c].pc = "index"
    /\ heap' = [heap EXCEPT ![NewStorage(c, "output")] =
                  Zeros3(Size(ArgX(c)), Size(ArgX(c)[0][0]), LocalH(c) * LocalW(c))]
    /\ Goto(c, "alloc")
    /\ ThreadUnchanged

\* xy_forward, lines 136-139: the scatter into output
XScatter(c) ==
    /\ call_args[c].entry = "xy_forward" /\ frame[c].pc = "alloc"
    /\ LET r == IF scatter_type = "cover"
                THEN Scatter3D(heap[NewStorage(c, "output")],
                               heap[NewStorage(c, "index")], Permute021(ArgX(c)), "none")
                ELSE Scatter3D(heap[NewStorage(c, "output")],
                               heap[NewStorage(c, "index")], Permute021(ArgX(c)), "add")
       IN  /\ heap' = [heap EXCEPT ![NewStorage(c, "output")] = r.value]
           /\ IF r.status = "error" THEN Raise(c) ELSE Goto(c, "scattered")
    /\ ThreadUnchanged

\* xy_forward, lines 140-141: output.view(...), return
XReturn(c) ==
    /\ call_args[c].entry = "xy_forward" /\ frame[c].pc = "scattered"
    /\ heap' = [heap EXCEPT ![NewStorage(c, "ret")] =
                  ViewGrid(heap[NewStorage(c, "output")], LocalH(c), LocalW(c))]
    /\ Return(c)
    /\ ThreadUnchanged

ThreadNext ==
    \E c \in Calls :
        \/ FIndex(c)
        \/ FAddBias(c)
        \/ FAlloc(c)
        \/ FScatter(c)
        \/ FReturn(c)
        \/ XIndices(c)
        \/ XAlloc(c)
        \/ XScatter(c)
        \/ XReturn(c)

ThreadSpec == ThreadInit /\ [][ThreadNext]_vars

\* ------------------------------------------------- calls on a tensor of any device
\* the orders in which a scatter kernel may perform its K writes along the
\* scatter dimension: increasing position on a CPU tensor, any order on a CUDA
\* tensor (one thread per element)
VisitOrders(dev, K) ==
    IF dev = "cpu" THEN {[k \in Range(K) |-> k]}
    ELSE {p \in [Range(K) -> Range(K)] : \A i, j \in Range(K) : p[i] = p[j] => i = j}

RECURSIVE ScatterRowIn(_, _, _, _, _, _)
\* ScatterRow with the positions visited in the given order
ScatterRowIn(self, index, src, reduce, order, k) ==
    IF k = Size(index) THEN Ok(self)
    ELSE IF index[order[k]] \notin DOMAIN self THEN Raised
    ELSE ScatterRowIn([self EXCEPT ![index[order[k]]] =
                          IF reduce = "add" THEN FAdd(@, src[order[k]])
                          ELSE src[order[k]]],
                      index, src, reduce, order, k + 1)

\* Scatter2D with row n written in the order orders[n]
Scatter2DIn(self, index, src, reduce, orders) ==
    IF \/ Size(index) > Size(self)
       \/ Size(index) > Size(src)
       \/ Cols(index) > Cols(src)
    THEN Raised
    ELSE LET rows == [n \in DOMAIN index |->
                          ScatterRowIn(self[n], index[n], src[n], reduce, orders[n], 0)]
         IN  IF \E n \in DOMAIN rows : rows[n].status = "error" THEN Raised
             ELSE Ok([n \in DOMAIN self |->
                          IF n \in DOMAIN rows THEN rows[n].value ELSE self[n]])

\* Scatter3D with row n of batch element b written in the order orders[b][n]
Scatter3DIn(self, index, src, reduce, orders) ==
    IF \/ Size(index) > Size(self)
       \/ Size(index) > Size(src)
    THEN Raised
    ELSE LET mats == [b \in DOMAIN index |->
                          Scatter2DIn(self[b], index[b], src[b], reduce, orders[b])]
         IN  IF \E b \in DOMAIN mats : mats[b].status = "error" THEN Raised
             ELSE Ok([b \in DOMAIN self |->
                          IF b \in DOMAIN mats THEN mats[b].value ELSE self[b]])

\* forward with the write orders its scatter kernel took
forward_in(st, x_, size, loc, orders) ==
    LET B == Size(x_)
        M == Cols(x_)
        N == Size(x_[0][0])
        H == size[1]
        W == size[2]
        index1 == AddBias(LinearIndex(ViewPairs(loc), W), Bias(B, M, H, W))
    IN  IF index1.status = "error" THEN Raised
        ELSE LET index == RepeatRows(index1.value, N)
                 xv == ViewPermute(x_, N)
                 output == Zeros2(N, B * H * W)
                 written == IF st = "cover"
                            THEN Scatter2DIn(output, index, xv, "none", orders)
                            ELSE Scatter2DIn(output, index, xv, "add", orders)
             IN  IF written.status = "error" THEN Raised
                 ELSE Ok(ReshapePermute(written.value, N, B, H, W))

\* xy_forward with the write orders its scatter kernel took
xy_forward_in(st, x_, size, coord_x, coord_y, orders) ==
    LET BatchSize == Size(x_)
        EmbeddingSize == Size(x_[0][0])
        H == size[1]
        W == size[2]
        indices == UnsqueezeRepeat(XYIndices(coord_x, coord_y, W), EmbeddingSize)
        output == Zeros3(BatchSize, EmbeddingSize, H * W)
        written == IF st = "cover"
                   THEN Scatter3DIn(output, indices, Permute021(x_), "none", orders)
                   ELSE Scatter3DIn(output, indices, Permute021(x_), "add", orders)
    IN  IF written.status = "error" THEN Raised
        ELSE Ok(ViewGrid(written.value, H, W))

\* in-grid calls on a CPU or a CUDA tensor
DeviceInit ==
    /\ init_type \in {"cover", "add"}
    /\ scatter_type = init_type
    /\ device \in {"cpu", "cuda"}
    /\ \E s \in Shapes(MaxEnt), g \in Grids(MaxCells) :
          /\ x = TagFeatures(s[1], s[2], MaxN)
          /\ spatial_size = g
          /\ location \in Locations(s[1], s[2], InGridPairs(g[1], g[2]))
    /\ ret_forward = NotCalled
    /\ ret_xy = NotCalled
    /\ ret_repeat = NotCalled
    /\ call_args = Unused /\ heap = Unused /\ frame = Unused

DeviceUnchanged ==
    UNCHANGED <<scatter_type, init_type, x, spatial_size, location, device, threadVars>>

\* the first forward call
DeviceForward ==
    /\ ret_forward.status = "none"
    /\ \E orders \in [Range(Size(x[0][0])) -> VisitOrders(device, Size(x) * Cols(x))] :
          ret_forward' = forward_in(scatter_type, x, spatial_size, location, orders)
    /\ UNCHANGED <<ret_xy, ret_repeat>>
    /\ DeviceUnchanged

\* forward called once more with the same arguments
DeviceForwardAgain ==
    /\ ret_forward.status # "none" /\ ret_repeat.status = "none"
    /\ \E orders \in [Range(Size(x[0][0])) -> VisitOrders(device, Size(x) * Cols(x))] :
          ret_repeat' = forward_in(scatter_type, x, spatial_size, location, orders)
    /\ UNCHANGED <<ret_forward, ret_xy>>
    /\ DeviceUnchanged

DeviceXYForward ==
    /\ ret_xy.status = "none"
    /\ \E orders \in [Range(Size(x)) ->
                         [Range(Size(x[0][0])) -> VisitOrders(device, Cols(x))]] :
          ret_xy' = xy_forward_in(scatter_type, x, spatial_size,
                                  Select(location, 1), Select(location, 2), orders)
    /\ UNCHANGED <<ret_forward, ret_repeat>>
    /\ DeviceUnchanged

DeviceNext == DeviceForward \/ DeviceForwardAgain \/ DeviceXYForward

DeviceSpec == DeviceInit /\ [][DeviceNext]_vars

\* ------------------------------------------------------- vocabulary of claims
B_ == Size(x)
M_ == Cols(x)
N_ == Size(x[0][0])
H_ == spatial_size[1]
W_ == spatial_size[2]

ShapesAgree == Size(location) = B_ /\ Cols(location) = M_

InGrid(pair) == pair[1] \in Range(H_) /\ pair[2] \in Range(W_)

AllInGrid == ShapesAgree /\ \A b \in Range(B_), m \in Range(M_) : InGrid(location[b][m])

Called(ret) == ret.status # "none"

\* entities of batch element b whose coordinate pair is cell
Colliders(b, cell) == {m \in Range(M_) : location[b][m] = cell}

MaxOf(S) == CHOOSE m \in S : \A k \in S : k <= m

\* the batch element b of a tensor, as a batch of one
Slice(t, b) == [i \in Range(1) |-> t[b]]

\* C1: no cross-batch bleed.  With B >= 2 and every coordinate pair in the grid,
\* the output slice of batch element b is the grid the same entry point returns
\* for batch element b alone; nothing of another batch element enters it.
C1_NoCrossBatchBleed ==
    (AllInGrid /\ B_ >= 2) =>
        /\ Called(ret_forward) =>
              /\ ret_forward.status = "ok"
              /\ \A b \in Range(B_) :
                    Slice(ret_forward.value, b) =
                        forward(scatter_type, Slice(x, b), spatial_size,
                                Slice(location, b)).value
        /\ Called(ret_xy) =>
              /\ ret_xy.status = "ok"
              /\ \A b \in Range(B_) :
                    Slice(ret_xy.value, b) =
                        xy_forward(scatter_type, Slice(x, b), spatial_size,
                                   Select(Slice(location, b), 1),
                                   Select(Slice(location, b), 2)).value

\* two batch elements with two entities each, entities of both on one cell
C1_Witness ==
    /\ AllInGrid /\ B_ = 2 /\ M_ = 2
    /\ location[0][0] = location[1][1]
    /\ location[0][1] # location[0][0]
    /\ ret_forward.status = "ok" /\ ret_xy.status = "ok"

RECURSIVE SumFrom(_, _, _, _, _)
\* float32 sum, in increasing entity index from m on, of channel n of the
\* entities of batch element b on cell, starting from acc
SumFrom(acc, b, n, cell, m) ==
    IF m = M_ THEN acc
    ELSE SumFrom(IF location[b][m] = cell THEN RoundF32(acc + x[b][m][n]) ELSE acc,
                 b, n, cell, m + 1)

Perms(n) == {p \in [Range(n) -> Range(n)] : \A i, j \in Range(n) : p[i] = p[j] => i = j}

\* batch element b of t with its entities reordered by p
PermuteBatch(t, b, p) == [t EXCEPT ![b] = [m \in Range(M_) |-> t[b][p[m]]]]

\* the result of both entry points is the same for every entity order
PermutationInvariant ==
    \A b \in Range(B_), p \in Perms(M_) :
        /\ Called(ret_forward) =>
              forward(scatter_type, PermuteBatch(x, b, p), spatial_size,
                      PermuteBatch(location, b, p)) = ret_forward
        /\ Called(ret_xy) =>
              xy_forward(scatter_type, PermuteBatch(x, b, p), spatial_size,
                         Select(PermuteBatch(location, b, p), 1),
                         Select(PermuteBatch(location, b, p), 2)) = ret_xy

\* every cell is the float32 sum, in entity order, of the entities on it
CellsAreSums(ret) ==
    Called(ret) =>
        /\ ret.status = "ok"
        /\ \A b \in Range(B_), n \in Range(N_), r \in Range(H_), c \in Range(W_) :
              /\ ret.value[b][n][r][c] = SumFrom(0, b, n, <<r, c>>, 0)
              /\ \A m1, m2 \in Range(M_) :
                    (m1 < m2 /\ Colliders(b, <<r, c>>) = {m1, m2}) =>
                        ret.value[b][n][r][c] = RoundF32(x[b][m1][n] + x[b][m2][n])

\* no cell receives more than two entities
AtMostTwoPerCell ==
    \A b \in Range(B_), m \in Range(M_) : Cardinality(Colliders(b, location[b][m])) <= 2

\* every partial sum of feature values is an integer of magnitude at most 2^24
SumsExact ==
    \A b \in Range(B_), m \in Range(M_), n \in Range(N_) :
        Abs(x[b][m][n]) * M_ <= Significand

LastWins(ret) ==
    Called(ret) =>
        /\ ret.status = "ok"
        /\ \A b \in Range(B_), n \in Range(N_), r \in Range(H_), c \in Range(W_) :
              Cardinality(Colliders(b, <<r, c>>)) >= 2 =>
                  ret.value[b][n][r][c] = x[b][MaxOf(Colliders(b, <<r, c>>))][n]

\* C3: overwrite determinism.  With scatter_type 'cover' and in-grid coordinates,
\* a cell shared by two or more entities of a batch element holds, in every
\* channel, the features of the one with the largest entity index, for both
\* entry points, and two forward calls with identical inputs return identical
\* outputs.
C3_OverwriteDeterminism ==
    (scatter_type = "cover" /\ AllInGrid) =>
        /\ LastWins(ret_forward)
        /\ LastWins(ret_xy)
        /\ (Called(ret_forward) /\ Called(ret_repeat)) => ret_repeat = ret_forward

\* the address forward writes entity m of batch element b to
ForwardAddress(b, m) == b * (H_ * W_) + location[b][m][1] * W_ + location[b][m][2]

\* the address, in the accumulator of its batch element, xy_forward writes it to
XYAddress(b, m) == location[b][m][1] * W_ + location[b][m][2]

\* C4: zero-fill.  For both collision policies and both entry points, every
\* cell (b, n, r, c) of the returned grid to which no entity of batch element b
\* maps is zero.
C4_ZeroFill ==
    ShapesAgree =>
        /\ ret_forward.status = "ok" =>
              \A b \in Range(B_), n \in Range(N_), r \in Range(H_), c \in Range(W_) :
                  (\A m \in Range(M_) :
                        ForwardAddress(b, m) # b * (H_ * W_) + r * W_ + c)
                      => ret_forward.value[b][n][r][c] = 0
        /\ ret_xy.status = "ok" =>
              \A b \in Range(B_), n \in Range(N_), r \in Range(H_), c \in Range(W_) :
                  (\A m \in Range(M_) : XYAddress(b, m) # r * W_ + c)
                      => ret_xy.value[b][n][r][c] = 0

\* C5: placement.  forward puts an in-grid entity that shares its address with
\* no other entity at [b, :, row, col]; xy_forward puts an entity whose address
\* a = coordX * W + coordY lies in [0, H*W) and is shared with no other entity of
\* its batch element at [b, :, a div W, a mod W].  Calls whose addresses are all
\* in range return a grid.
C5_Placement ==
    ShapesAgree =>
        /\ (AllInGrid /\ Called(ret_forward)) => ret_forward.status = "ok"
        /\ ret_forward.status = "ok" =>
              \A b \in Range(B_), m \in Range(M_) :
                  (/\ InGrid(location[b][m])
                   /\ \A b2 \in Range(B_), m2 \in Range(M_) :
                         ForwardAddress(b2, m2) = ForwardAddress(b, m) => <<b2, m2>> = <<b, m>>)
                  => \A n \in Range(N_) :
                         ret_forward.value[b][n][location[b][m][1]][location[b][m][2]]
                             = x[b][m][n]
        /\ ((\A b \in Range(B_), m \in Range(M_) : XYAddress(b, m) \in Range(H_ * W_))
                /\ Called(ret_xy)) => ret_xy.status = "ok"
        /\ ret_xy.status = "ok" =>
              \A b \in Range(B_), m \in Range(M_) :
                  (/\ XYAddress(b, m) \in Range(H_ * W_)
                   /\ \A m2 \in Range(M_) : XYAddress(b, m2) = XYAddress(b, m) => m2 = m)
                  => \A n \in Range(N_) :
                         ret_xy.value[b][n][XYAddress(b, m) \div W_][XYAddress(b, m) % W_]
                             = x[b][m][n]

\* the 4 x 4 scenario: forward with (row 1, col 2) fills [0, :, 1, 2]
C5_Witness ==
    /\ spatial_size = <<4, 4>> /\ B_ = 1 /\ M_ = 1 /\ N_ = 2
    /\ location[0][0] = <<1, 2>>
    /\ ret_forward.status = "ok" /\ ret_xy.status = "ok"
    /\ ret_forward.value[0][0][1][2] = 1 /\ ret_forward.value[0][1][1][2] = 2
    /\ ret_xy.value[0][0][1][2] = 1 /\ ret_xy.value[0][1][1][2] = 2

\* C6: ShapeMismatch.  A call whose coordinate input differs from the features
\* in batch size or entity count ends in an error, for both entry points.
C6_ShapeMismatchRaises ==
    ~ShapesAgree =>
        /\ Called(ret_forward) => ret_forward.status = "error"
        /\ Called(ret_xy) => ret_xy.status = "error"

\* C7: out-of-range coordinates fail fast.  A forward call with a location
\* outside [0,H) x [0,W) ends in an error and returns no grid.
C7_OutOfRangeRaises ==
    (ShapesAgree /\ ~AllInGrid /\ Called(ret_forward)) => ret_forward.status = "error"

C10_XYAddressInGrid ==
    (/\ ShapesAgree
     /\ \A b \in Range(B_), m \in Range(M_) :
           location[b][m][1] \in Range(W_) /\ location[b][m][2] \in Range(H_)
     /\ Called(ret_xy))
    => /\ \A b \in Range(B_), m \in Range(M_) : XYAddress(b, m) \in Range(H_ * W_)
       /\ ret_xy.status = "ok"

\* the grid call c returns when it runs alone on the engine as constructed
Alone(c) ==
    IF call_args[c].entry = "forward"
    THEN forward(init_type, call_args[c].x, call_args[c].spatial_size,
                 call_args[c].location)
    ELSE xy_forward(init_type, call_args[c].x, call_args[c].spatial_size,
                    Select(call_args[c].location, 1), Select(call_args[c].location, 2))

\* what call c handed back to its caller
Returned(c) ==
    IF frame[c].status = "ok" THEN Ok(heap[NewStorage(c, "ret")]) ELSE Raised

\* C8: statelessness under interleaving.  However the steps of two calls on one
\* engine interleave, the arguments of each call and the engine's scatter_type
\* keep their values, and a finished call has returned what it returns when it
\* runs alone.
C8_Stateless ==
    /\ scatter_type = init_type
    /\ \A c \in Calls :
          /\ ArgX(c) = call_args[c].x
          /\ ArgLocation(c) = call_args[c].location
          /\ frame[c].pc = "done" => Returned(c) = Alone(c)

\* a forward call has returned its grid while an xy_forward call on other
\* arguments has written its accumulator and not yet returned
C8_Witness ==
    /\ call_args[1].entry = "forward" /\ call_args[2].entry = "xy_forward"
    /\ call_args[1].location # call_args[2].location
    /\ frame[1].pc = "done" /\ frame[1].status = "ok"
    /\ frame[2].pc = "scattered"
    /\ Returned(1) = Alone(1)

====
